---- MODULE Spec2Model ----
(***************************************************************************)
(* Model of the dircrab scan engine: the orchestrator loop of main         *)
(* (src/src/main.rs), start_scan with its drain loop and worker tasks, and *)
(* perform_scan (src/src/lib.rs).                                          *)
(*                                                                         *)
(* A URL is modelled by its host (a sequence of labels), its path (the     *)
(* sequence of path segments and whether the path ends in '/') and its     *)
(* query (a sequence of key/value pairs).  A word is a segment name and    *)
(* whether the word itself ends in '/'.  Text that may hold the FUZZ       *)
(* marker is a sequence of tokens.                                         *)
(***************************************************************************)
EXTENDS Bags, FiniteSets, Integers, Sequences, TLC

\* ------------------------------------------------------------------------
\* Bounds of the model
\* ------------------------------------------------------------------------
MaxConcurrency == 2
MaxDepth == 2
MaxWords == 2
MaxUrls == 2
\* the runs explored spawn at most this many tasks over all their scans
MaxTasks == 4
\* capacity of the event channel handed to start_scan (main uses 100, the
\* tests use 1 and 100); kept small so that senders do block
EventCapacity == 1
\* the longest response body, in characters
MaxBody == 2
\* lines the TUI list can hold in the model (a page is a tenth of the list)
MaxFound == 20

\* Option<T>: None is the empty sequence, Some(x) the sequence <<x>>
None == <<>>
Some(x) == <<x>>
Unwrap(o) == o[1]

\* Result<T>: Ok(v) and Err
Ok(v) == <<"Ok", v>>
Err == <<"Err">>

Range(seq) == {seq[i] : i \in DOMAIN seq}

\* ------------------------------------------------------------------------
\* URLs and words
\* ------------------------------------------------------------------------
\* tokens of a text: the FUZZ marker, other text, and a word put in place
\* of the marker
FUZZ == <<"FUZZ">>
Lit == <<"lit">>
WordTok(w) == <<"word", w>>

\* "http://S/"
Root == [host |-> <<Lit>>, segs |-> <<>>, slash |-> TRUE, query |-> <<>>]

\* the i-th line of the wordlist: odd words are plain ("a"), even words end
\* in '/' ("b/")
Word(i) == [name |-> i, slash |-> (i % 2 = 0)]

\* the i-th base URL given on the command line, after main has put the
\* trailing '/' on path-mode URLs: "http://S/", "http://S/1/", ...
BaseUrl(i) == IF i % 2 = 1 THEN Root ELSE [Root EXCEPT !.segs = <<1>>]

\* path mode of perform_scan: push '/' unless the URL ends in one, push the
\* word, reparse
PathTarget(base, w) == [base EXCEPT !.segs = Append(@, w.name), !.slash = w.slash]

\* the request URL of perform_scan: POST with a body template leaves the URL
\* alone, otherwise (path mode) the word is appended
TargetUrl(base, w, post_data) == IF post_data THEN base ELSE PathTarget(base, w)

\* ------------------------------------------------------------------------
\* perform_scan: from the base URL and the word to the request
\* ------------------------------------------------------------------------
\* str::contains("FUZZ") and str::replace("FUZZ", word)
ContainsFuzz(text) == \E i \in DOMAIN text : text[i] = FUZZ
replace(text, w) == [i \in DOMAIN text |-> IF text[i] = FUZZ THEN WordTok(w) ELSE text[i]]

\* the fuzz mode main gives a URL: "FUZZ." in it (the marker as a host label
\* before the last) means Subdomain, otherwise a '?' and the marker anywhere
\* mean Parameter, otherwise Path
FuzzModeOf(url) ==
    LET in_host == \E i \in DOMAIN url.host : url.host[i] = FUZZ
        before_dot == \E i \in DOMAIN url.host : url.host[i] = FUZZ /\ i < Len(url.host)
        in_query == \E i \in DOMAIN url.query :
                        ContainsFuzz(url.query[i].key) \/ ContainsFuzz(url.query[i].val)
    IN  IF before_dot THEN "Subdomain"
        ELSE IF url.query # <<>> /\ (in_host \/ in_query) THEN "Parameter"
        ELSE "Path"

\* subdomain mode: the marker is replaced in the host and the host set
\* back, which fails for a host with a '/' in it
SubdomainTarget(base, w) ==
    IF base.host = <<>> THEN Err
    ELSE IF ContainsFuzz(base.host) /\ w.slash THEN Err
    ELSE Ok([base EXCEPT !.host = replace(@, w)])

\* the first query pair whose value holds the marker (0 when none does)
FirstFuzz(query) ==
    IF \E i \in DOMAIN query : ContainsFuzz(query[i].val)
      THEN CHOOSE i \in DOMAIN query :
              /\ ContainsFuzz(query[i].val)
              /\ \A j \in 1..(i - 1) : ~ContainsFuzz(query[j].val)
      ELSE 0

\* faulty variant: a query without the marker is sent as it is
ParameterTargetLenient(base, w) ==
    IF FirstFuzz(base.query) = 0 THEN Ok(base)
    ELSE Ok([base EXCEPT !.query[FirstFuzz(base.query)].val = replace(@, w)])

\* parameter mode: the marker is replaced in the first value that holds it;
\* bail when no value does
ParameterTarget(base, w) ==
    IF FirstFuzz(base.query) = 0 THEN Err
    ELSE Ok([base EXCEPT !.query[FirstFuzz(base.query)].val = replace(@, w)])

\* the match on fuzz_mode
Templated(mode, base, w) ==
    CASE mode = "Path" -> Ok(PathTarget(base, w))
      [] mode = "Subdomain" -> SubdomainTarget(base, w)
      [] mode = "Parameter" -> ParameterTarget(base, w)

\* faulty variant: the URL is fuzzed also when the word goes into the body
BuildRequestAlwaysFuzzed(http_method, data, mode, base, w) ==
    LET url == Templated(mode, base, w)
        body == IF http_method = "POST" /\ data # None
                  THEN Some(replace(Unwrap(data), w)) ELSE None
    IN  IF url = Err THEN Err ELSE Ok([url |-> url[2], body |-> body])

\* the request perform_scan builds (its URL and its body), or the error it
\* returns before any request is made
BuildRequest(http_method, data, mode, base, w) ==
    LET url == IF http_method # "POST" \/ data = None
                 THEN Templated(mode, base, w) ELSE Ok(base)
        body == IF http_method = "POST" /\ data # None
                  THEN Some(replace(Unwrap(data), w)) ELSE None
    IN  IF url = Err THEN Err ELSE Ok([url |-> url[2], body |-> body])

IsSuccess(status) == status >= 200 /\ status < 300
IsRedirection(status) == status >= 300 /\ status < 400

\* faulty variant: no implicit exclusion of 404
StatusPassesNoDefault(include, exclude, status) ==
    IF include # None THEN status \in Unwrap(include)
    ELSE IF exclude # None THEN status \notin Unwrap(exclude)
    ELSE TRUE

\* faulty variant: exclude looked at before include
StatusPassesExcludeFirst(include, exclude, status) ==
    IF exclude # None THEN status \notin Unwrap(exclude)
    ELSE IF include # None THEN status \in Unwrap(include)
    ELSE status # 404

\* the status rule of perform_scan: include takes precedence over exclude,
\* and 404 is dropped when neither is given
StatusPasses(include, exclude, status) ==
    IF include # None THEN status \in Unwrap(include)
    ELSE IF exclude # None THEN status \notin Unwrap(exclude)
    ELSE status # 404

\* faulty variant: a redirect is not a base for deeper scanning
RecursionUrlSuccessOnly(target, status) ==
    IF IsSuccess(status) THEN Some([target EXCEPT !.slash = TRUE])
    ELSE None

\* the URL perform_scan returns for recursion (None when there is none)
RecursionUrl(target, status) ==
    IF IsSuccess(status) THEN Some([target EXCEPT !.slash = TRUE])
    ELSE IF IsRedirection(status) THEN Some(target)
    ELSE None

\* the statuses the server answers with
Statuses == {200, 301, 403, 404}

\* ------------------------------------------------------------------------
\* Response bodies and the body metrics
\* ------------------------------------------------------------------------
\* a body is a string of word characters and line feeds
Chars == {"x", "\n"}
Bodies == UNION {[1..n -> Chars] : n \in 0..MaxBody}

\* what res.text() gives: the body, or nothing when reading it fails
BodyResults == {None} \cup {Some(b) : b \in Bodies}

\* body.split_whitespace().count(): the maximal runs of word characters
words_count(body) ==
    Cardinality({i \in DOMAIN body : body[i] = "x" /\ (i = 1 \/ body[i - 1] # "x")})

\* body.chars().count()
chars_count(body) == Len(body)

\* body.lines().count(): every line feed ends a line, and what follows the
\* last one is a line when it is not empty
lines_count(body) ==
    Cardinality({i \in DOMAIN body : body[i] = "\n"})
        + (IF body # <<>> /\ body[Len(body)] # "\n" THEN 1 ELSE 0)

\* (words_count, chars_count, lines_count): zero for a 301, whatever the body
Metrics(status, body) ==
    IF status = 301 THEN [w |-> 0, c |-> 0, l |-> 0]
    ELSE [w |-> words_count(body), c |-> chars_count(body), l |-> lines_count(body)]

\* ------------------------------------------------------------------------
\* State
\* ------------------------------------------------------------------------
VARIABLES
    \* configuration, fixed after Init
    concurrency, max_depth, words, urls, post_data, include_status, exclude_status,
    exact_words, exact_chars, exact_lines,
    exclude_exact_words, exclude_exact_chars, exclude_exact_lines, delay,
    \* orchestrator task of main and the start_scan call it is in
    pc, scanIdx, outcome,
    \* control channel
    stopSent, ctrlPending, stopScan,
    \* start_scan
    permits, scan_queue, join_set, visited_urls,
    \* event channel, and the task of main that receives from it
    buffered, consumer,
    \* what has been observed so far
    sent, dispatched, enqueued,
    \* one perform_scan call taken on its own: the answer to its request,
    \* and the events it sent and the value it returned
    response, performed,
    \* one perform_scan call up to its request: what it was given and what
    \* it built
    built,
    \* who holds the Mutex of the work queue and the Mutex of the visited set
    queue_lock, visited_lock,
    \* how many events the consumer has taken from the event channel
    received,
    \* App of the TUI: the lines of its list and list_state.selected()
    found_urls, selected

config == <<concurrency, max_depth, words, urls, post_data, include_status, exclude_status,
            exact_words, exact_chars, exact_lines,
            exclude_exact_words, exclude_exact_chars, exclude_exact_lines, delay>>
probe == <<response, performed, built>>
locks == <<queue_lock, visited_lock>>
app == <<found_urls, selected>>
vars == <<concurrency, max_depth, words, urls, post_data, include_status, exclude_status,
          exact_words, exact_chars, exact_lines,
          exclude_exact_words, exclude_exact_chars, exclude_exact_lines, delay,
          response, performed, built, consumer, queue_lock, visited_lock,
          received, found_urls, selected,
          pc, scanIdx, outcome, stopSent, ctrlPending, stopScan,
          permits, scan_queue, join_set, visited_urls, buffered,
          sent, dispatched, enqueued>>

\* ------------------------------------------------------------------------
\* perform_scan: from the answer to the request to the return value
\* ------------------------------------------------------------------------
\* an exact_* list: the count must be in it when the list is given
ExactOk(list, n) == list = None \/ n \in Unwrap(list)

\* faulty variant: an exclude_exact_* list that is never looked at
ExcludeExactOkIgnored(list, n) == TRUE

\* an exclude_exact_* list: the count must not be in it when the list is given
ExcludeExactOk(list, n) == list = None \/ n \notin Unwrap(list)

\* the six checks on the metrics m, in the order of the code; each one
\* returns Ok(None) when it fails
MetricsPass(m) ==
    IF ~ExactOk(exact_words, m.w) THEN FALSE
    ELSE IF ~ExactOk(exact_chars, m.c) THEN FALSE
    ELSE IF ~ExactOk(exact_lines, m.l) THEN FALSE
    ELSE IF ~ExcludeExactOk(exclude_exact_words, m.w) THEN FALSE
    ELSE IF ~ExcludeExactOk(exclude_exact_chars, m.c) THEN FALSE
    ELSE IF ~ExcludeExactOk(exclude_exact_lines, m.l) THEN FALSE
    ELSE TRUE

\* send() failed: ErrorOccurred is sent and the error returned
AfterSendError == [events |-> <<"ErrorOccurred">>, ret |-> Err]

\* faulty variant: a response dropped by a metric filter is still returned
\* as a base for deeper scanning
AfterResponseDropRecurses(target, status, body) ==
    IF ~StatusPasses(include_status, exclude_status, status)
      THEN [events |-> <<"RequestCompleted">>, ret |-> Ok(None)]
    ELSE IF body = None
      THEN [events |-> <<"RequestCompleted">>, ret |-> Err]
    ELSE IF ~MetricsPass(Metrics(status, Unwrap(body)))
      THEN [events |-> <<"RequestCompleted">>, ret |-> Ok(RecursionUrl(target, status))]
    ELSE [events |-> <<"RequestCompleted", "FoundUrl">>,
          ret |-> Ok(RecursionUrl(target, status))]

\* send() gave a response with this status, whose body reads as `body`
\* (None when res.text() fails): the events perform_scan sends from there on
\* and the value it returns
AfterResponse(target, status, body) ==
    IF ~StatusPasses(include_status, exclude_status, status)
      THEN [events |-> <<"RequestCompleted">>, ret |-> Ok(None)]
    ELSE IF body = None
      THEN [events |-> <<"RequestCompleted">>, ret |-> Err]
    ELSE IF ~MetricsPass(Metrics(status, Unwrap(body)))
      THEN [events |-> <<"RequestCompleted">>, ret |-> Ok(None)]
    ELSE [events |-> <<"RequestCompleted", "FoundUrl">>,
          ret |-> Ok(RecursionUrl(target, status))]

EventKinds == {"ScanStarted", "ScanFinished", "ScanStopped", "RequestCompleted",
               "FoundUrl", "ErrorOccurred", "Warning"}
WorkerKinds == {"RequestCompleted", "FoundUrl", "ErrorOccurred", "Warning"}

\* the positions of the orchestrator while it is inside start_scan
ScanPcs == {"scan_start", "drain", "join", "finish", "return", "error"}

NoEvents == [k \in EventKinds |-> 0]

\* the largest number of tasks one scan with nw words can spawn down to
\* depth d: nw + nw^2 + ... (one level when d is 0 or 1)
RECURSIVE TaskBudget(_, _)
TaskBudget(nw, d) == IF d <= 1 THEN nw ELSE nw * (1 + TaskBudget(nw, d - 1))

\* no word, character or line filter on the command line
NoMetricFilters ==
    /\ exact_words = None
    /\ exact_chars = None
    /\ exact_lines = None
    /\ exclude_exact_words = None
    /\ exclude_exact_chars = None
    /\ exclude_exact_lines = None

\* main has spawned the orchestrator task and nothing has run yet
InitScan ==
    /\ pc = "spawned"
    /\ scanIdx = 1
    /\ outcome = [i \in 1..Len(urls) |-> "pending"]
    /\ stopSent = FALSE
    /\ ctrlPending = FALSE
    /\ stopScan = 0
    /\ permits = 0
    /\ scan_queue = <<>>
    /\ join_set = {}
    /\ visited_urls = {}
    /\ buffered = 0
    /\ consumer = "running"
    /\ queue_lock = "free"
    /\ visited_lock = "free"
    /\ received = 0
    /\ found_urls = <<>>
    /\ selected = None
    /\ sent = [i \in 1..Len(urls) |-> NoEvents]
    /\ dispatched = [i \in 1..Len(urls) |-> 0]
    /\ enqueued = EmptyBag

\* no perform_scan call is looked at on its own
InitProbe ==
    /\ response = None
    /\ performed = None
    /\ built = None

Init ==
    /\ concurrency \in 1..MaxConcurrency
    /\ max_depth \in 0..MaxDepth
    /\ \E n \in 1..MaxWords : words = [i \in 1..n |-> Word(i)]
    /\ \E n \in 1..MaxUrls : urls = [i \in 1..n |-> BaseUrl(i)]
    /\ Len(urls) * TaskBudget(Len(words), max_depth) <= MaxTasks
    /\ post_data \in BOOLEAN
    /\ include_status \in {None}
    /\ exclude_status \in {None}
    /\ NoMetricFilters
    /\ delay = FALSE
    /\ InitScan
    /\ InitProbe

\* ------------------------------------------------------------------------
\* Event channel
\* ------------------------------------------------------------------------
\* the receiver of the event channel was dropped: the consumer task ended
rx_closed == consumer # "running"

\* send() completes with Ok when the receiver is there and the buffer has room
CanSend == ~rx_closed /\ buffered < EventCapacity

\* tx.send(kind) of scan s: one more event buffered and counted
Emit(s, kind) ==
    /\ buffered' = buffered + 1
    /\ sent' = [sent EXCEPT ![s][kind] = @ + 1]

\* the consumer task of main (console loop or TUI) receives one event
Consume ==
    /\ ~rx_closed
    /\ buffered > 0
    /\ buffered' = buffered - 1
    /\ received' = received + 1
    /\ UNCHANGED <<config, locks, app, probe, consumer, pc, scanIdx, outcome, stopSent, ctrlPending, stopScan,
                   permits, scan_queue, join_set, visited_urls,
                   sent, dispatched, enqueued>>

\* ------------------------------------------------------------------------
\* Orchestrator task of main
\* ------------------------------------------------------------------------
\* the orchestrator task starts and subscribes to the control channel
Subscribe ==
    /\ pc = "spawned"
    /\ pc' = "select"
    /\ UNCHANGED <<config, locks, app, received, probe, consumer, scanIdx, outcome, stopSent, ctrlPending, stopScan,
                   permits, scan_queue, join_set, visited_urls, buffered,
                   sent, dispatched, enqueued>>

\* the Ctrl-C handler publishes Stop; only a subscribed receiver sees it
SendStop ==
    /\ ~stopSent
    /\ stopSent' = TRUE
    /\ ctrlPending' = (pc \notin {"spawned", "exit"})
    /\ stopScan' = IF pc \in ScanPcs THEN scanIdx ELSE 0
    /\ UNCHANGED <<config, locks, app, received, probe, consumer, pc, scanIdx, outcome,
                   permits, scan_queue, join_set, visited_urls, buffered,
                   sent, dispatched, enqueued>>

\* the scan arm of select! is polled for the next base URL: a new visited
\* set is made and start_scan creates its semaphore, queue and join set
BeginScan ==
    /\ pc = "select"
    /\ scanIdx <= Len(urls)
    /\ pc' = "scan_start"
    /\ outcome' = [outcome EXCEPT ![scanIdx] = "running"]
    /\ visited_urls' = {}
    /\ permits' = concurrency
    /\ scan_queue' = <<>>
    /\ join_set' = {}
    /\ UNCHANGED <<config, locks, app, received, probe, consumer, scanIdx, stopSent, ctrlPending, stopScan, buffered,
                   sent, dispatched, enqueued>>

\* the start_scan future is pending at one of its awaits: a send on a full
\* event channel, or the select! of the drain loop while tasks are running
Suspended ==
    \/ pc \in {"scan_start", "finish"} /\ buffered >= EventCapacity
    \/ pc = "drain" /\ scan_queue = <<>> /\ join_set # {}

\* the recv arm of select! wins, before the scan arm is first polled or while
\* it is pending: the loop breaks and the start_scan future is dropped with
\* its join set (which aborts the tasks), queue and semaphore
Break ==
    /\ ctrlPending
    /\ \/ Suspended
       \/ pc = "select" /\ scanIdx <= Len(urls)
    /\ pc' = "exit"
    /\ ctrlPending' = FALSE
    /\ outcome' = IF pc \in ScanPcs THEN [outcome EXCEPT ![scanIdx] = "dropped"] ELSE outcome
    /\ permits' = 0
    /\ scan_queue' = <<>>
    /\ join_set' = {}
    /\ visited_urls' = {}
    /\ UNCHANGED <<config, locks, app, received, probe, consumer, scanIdx, stopSent, stopScan, buffered,
                   sent, dispatched, enqueued>>

\* the for loop over the base URLs is over
AllScanned ==
    /\ pc = "select"
    /\ scanIdx > Len(urls)
    /\ pc' = "exit"
    /\ UNCHANGED <<config, locks, app, received, probe, consumer, scanIdx, outcome, stopSent, ctrlPending, stopScan,
                   permits, scan_queue, join_set, visited_urls, buffered,
                   sent, dispatched, enqueued>>

\* ------------------------------------------------------------------------
\* start_scan: the drain loop
\* ------------------------------------------------------------------------
\* faulty variant: a join set that always looks empty
is_empty_always(js) == TRUE

\* faulty variant: a join set that never looks empty
is_empty_never(js) == FALSE

\* JoinSet::is_empty, and join_next() returning None
is_empty(js) == js = {}

\* faulty variant: join_next() hands out tasks that are still running
TaskFinishedAny(t) == TRUE

\* join_next() returns a task only once it has run to its end
TaskFinished(t) == t.pc = "done"

\* join_set.spawn(..) on the join set of the running start_scan call: the
\* task of one (url, word) pair, about to acquire its permit
NewTask(item, w) ==
    [scan |-> scanIdx, url |-> item.url, depth |-> item.depth, word |-> w, pc |-> "acquire",
     status |-> 0, result |-> "none", emitted |-> <<>>, held |-> {}]

\* faulty variant: the depth check on popped items is missing
SkipItemNever(depth, maxd) == FALSE

\* the depth check on a popped work item
SkipItem(depth, maxd) == maxd > 0 /\ depth >= maxd

\* send ScanStarted, then push (base_url, 0)
SendScanStarted ==
    /\ pc = "scan_start"
    /\ CanSend
    /\ Emit(scanIdx, "ScanStarted")
    /\ scan_queue' = Append(scan_queue, [url |-> urls[scanIdx], depth |-> 0])
    /\ pc' = "drain"
    /\ UNCHANGED <<config, locks, app, received, probe, consumer, scanIdx, outcome, stopSent, ctrlPending, stopScan,
                   permits, join_set, visited_urls, dispatched, enqueued>>

\* pop_front gives an item: skip it when it is too deep, otherwise spawn one
\* task per word
DrainPop ==
    /\ pc = "drain"
    /\ scan_queue # <<>>
    /\ LET item == Head(scan_queue) IN
        /\ scan_queue' = Tail(scan_queue)
        /\ IF SkipItem(item.depth, max_depth)
             THEN UNCHANGED <<join_set, dispatched>>
             ELSE /\ join_set' = join_set \cup {NewTask(item, w) : w \in 1..Len(words)}
                  /\ dispatched' = [dispatched EXCEPT ![scanIdx] = @ + Len(words)]
    /\ UNCHANGED <<config, locks, app, received, probe, consumer, pc, scanIdx, outcome, stopSent, ctrlPending, stopScan,
                   permits, visited_urls, buffered, sent, enqueued>>

\* queue empty and no task left: break out of the loop
DrainBreak ==
    /\ pc = "drain"
    /\ scan_queue = <<>>
    /\ is_empty(join_set)
    /\ pc' = "join"
    /\ UNCHANGED <<config, locks, app, received, probe, consumer, scanIdx, outcome, stopSent, ctrlPending, stopScan,
                   permits, scan_queue, join_set, visited_urls, buffered,
                   sent, dispatched, enqueued>>

\* what the closure of a task returns: the error of its own progress
\* send, and Ok(()) in every other case, whatever perform_scan returned
TaskReturn(t) == IF t.result = "SendErr" THEN Err ELSE Ok(<<>>)

\* faulty variant: the drain loop gives up when the task it joined has
\* ended with an error
DrainPropagatesErr(t) == t.result \in {"Err", "SendErr"}

\* `_ = join_set.join_next() => {}`: the drain loop does not look at how the
\* task it joined has ended
DrainPropagates(t) == FALSE

\* queue empty but tasks left: release the lock and wait in select! for
\* join_next() to return a finished task, whose result is ignored, then
\* continue.  (When the 100 ms sleep fires first the loop just runs again:
\* it pops what a task has pushed meanwhile, or waits here again.)
DrainWait ==
    /\ pc = "drain"
    /\ scan_queue = <<>>
    /\ ~is_empty(join_set)
    /\ \E t \in join_set :
        /\ TaskFinished(t)
        /\ join_set' = join_set \ {t}
        /\ pc' = IF DrainPropagates(t) THEN "error" ELSE pc
    /\ UNCHANGED <<config, locks, app, received, probe, consumer, scanIdx, outcome, stopSent, ctrlPending, stopScan,
                   permits, scan_queue, visited_urls, buffered,
                   sent, dispatched, enqueued>>

\* while let Some(res) = join_set.join_next().await { res??; }
\* (a task returns Err only when an event send fails, which needs a closed
\* receiver)
JoinRemaining ==
    /\ pc = "join"
    /\ IF is_empty(join_set)
         THEN pc' = "finish" /\ UNCHANGED join_set
         ELSE \E t \in join_set :
                   /\ TaskFinished(t)
                   /\ join_set' = join_set \ {t}
                   /\ pc' = IF TaskReturn(t) = Err THEN "error" ELSE pc
    /\ UNCHANGED <<config, locks, app, received, probe, consumer, scanIdx, outcome, stopSent, ctrlPending, stopScan,
                   permits, scan_queue, visited_urls, buffered,
                   sent, dispatched, enqueued>>

\* send ScanFinished
SendScanFinished ==
    /\ pc = "finish"
    /\ CanSend
    /\ Emit(scanIdx, "ScanFinished")
    /\ pc' = "return"
    /\ UNCHANGED <<config, locks, app, received, probe, consumer, scanIdx, outcome, stopSent, ctrlPending, stopScan,
                   permits, scan_queue, join_set, visited_urls, dispatched, enqueued>>

\* drop(tx); Ok(()): start_scan returns, which drops its join set (aborting
\* what is in it), queue and semaphore, and the for loop of main goes on to
\* the next base URL
Return ==
    /\ pc = "return"
    /\ outcome' = [outcome EXCEPT ![scanIdx] = "returned"]
    /\ scanIdx' = scanIdx + 1
    /\ pc' = "select"
    /\ permits' = 0
    /\ scan_queue' = <<>>
    /\ join_set' = {}
    /\ visited_urls' = {}
    /\ UNCHANGED <<config, locks, app, received, probe, consumer, stopSent, ctrlPending, stopScan, buffered,
                   sent, dispatched, enqueued>>

\* ------------------------------------------------------------------------
\* start_scan: one spawned task (with the perform_scan call it makes)
\* ------------------------------------------------------------------------
\* faulty variant: acquire() that never waits
HasPermitAlways(p) == TRUE

HasPermit(p) == p > 0

\* faulty variant: the permit is leaked when the task ends
ReleaseLeak(p) == p

\* dropping _permit at the end of the task gives the permit back
Release(p) == p + 1

Replace(t, u) == (join_set \ {t}) \cup {u}

\* the task ends: its permit and the response are dropped
Finished(t, res) == [t EXCEPT !.pc = "done", !.result = res, !.status = 0]

\* faulty variant: the configured delay is not served
AfterAcquireNoSleep(d) == "progress"

\* `if let Some(d) = scan_delay_clone { sleep(d).await }`: what the task does
\* once it holds its permit
AfterAcquire(d) == IF d THEN "sleep" ELSE "progress"

\* semaphore.acquire()
AcquirePermit(t) ==
    /\ t.pc = "acquire"
    /\ HasPermit(permits)
    /\ permits' = permits - 1
    /\ join_set' = Replace(t, [t EXCEPT !.pc = AfterAcquire(delay)])
    /\ UNCHANGED <<config, locks, app, received, probe, consumer, pc, scanIdx, outcome, stopSent, ctrlPending, stopScan,
                   scan_queue, visited_urls, buffered, sent, dispatched, enqueued>>

\* the sleep of the configured delay is over; the task still holds its permit
Sleep(t) ==
    /\ t.pc = "sleep"
    /\ join_set' = Replace(t, [t EXCEPT !.pc = "progress"])
    /\ UNCHANGED <<config, locks, app, received, probe, consumer, pc, scanIdx, outcome, stopSent, ctrlPending, stopScan,
                   permits, scan_queue, visited_urls, buffered, sent, dispatched, enqueued>>

\* the fuzz mode main has paired with the base URL of the running scan
FuzzMode == FuzzModeOf(urls[scanIdx])

\* the request the task of record t builds: main passes POST with a body
\* template when post_data is set, and GET without one otherwise
Built(t) ==
    BuildRequest(IF post_data THEN "POST" ELSE "GET",
                 IF post_data THEN Some(<<FUZZ>>) ELSE None,
                 FuzzMode, t.url, words[t.word])

\* the URL of that request
TargetOf(t) == Built(t)[2].url

\* the progress update the task sends before it calls perform_scan; then
\* perform_scan builds the request and sends it, or returns an error when
\* the request cannot be built, which the task prints before it ends
SendProgress(t) ==
    /\ t.pc = "progress"
    /\ CanSend
    /\ Emit(scanIdx, "RequestCompleted")
    /\ LET u == [t EXCEPT !.emitted = Append(@, "RequestCompleted")] IN
        IF Built(t) = Err
          THEN /\ join_set' = Replace(t, Finished(u, "Err"))
               /\ permits' = Release(permits)
          ELSE /\ join_set' = Replace(t, [u EXCEPT !.pc = "inflight"])
               /\ UNCHANGED permits
    /\ UNCHANGED <<config, locks, app, received, probe, consumer, pc, scanIdx, outcome, stopSent, ctrlPending, stopScan,
                   scan_queue, visited_urls, dispatched, enqueued>>

\* the server answers: Ok(r), so RequestCompleted is sent; then the status
\* rule is applied, the body is read (res.text().await?, which can fail) and
\* the metric filters are applied
Respond(t, status, body) ==
    /\ t.pc = "inflight"
    /\ CanSend
    /\ Emit(scanIdx, "RequestCompleted")
    /\ LET u == [t EXCEPT !.emitted = Append(@, "RequestCompleted")]
           out == AfterResponse(TargetOf(t), status, body) IN
        IF "FoundUrl" \in Range(out.events)
          THEN /\ join_set' = Replace(t, [u EXCEPT !.pc = "emit", !.status = status])
               /\ UNCHANGED permits
          ELSE IF out.ret \in {Err, Ok(None)}
          THEN /\ join_set' = Replace(t, Finished(u, IF out.ret = Err THEN "Err" ELSE "OkNone"))
               /\ permits' = Release(permits)
          ELSE /\ join_set' = Replace(t, [u EXCEPT !.pc = "visit", !.status = status,
                                                   !.result = "OkSome"])
               /\ UNCHANGED permits
    /\ UNCHANGED <<config, locks, app, received, probe, consumer, pc, scanIdx, outcome, stopSent, ctrlPending, stopScan,
                   scan_queue, visited_urls, dispatched, enqueued>>

\* send() fails (connect, TLS, DNS or timeout): Err(e), so ErrorOccurred is
\* sent and the error returned; the task prints it and ends
TransportError(t) ==
    /\ t.pc = "inflight"
    /\ CanSend
    /\ Emit(scanIdx, "ErrorOccurred")
    /\ join_set' = Replace(t, Finished([t EXCEPT !.emitted = Append(@, "ErrorOccurred")], "Err"))
    /\ permits' = Release(permits)
    /\ UNCHANGED <<config, locks, app, received, probe, consumer, pc, scanIdx, outcome, stopSent, ctrlPending, stopScan,
                   scan_queue, visited_urls, dispatched, enqueued>>

\* send FoundUrl and return the URL to recurse into, if any
EmitFound(t) ==
    /\ t.pc = "emit"
    /\ CanSend
    /\ Emit(scanIdx, "FoundUrl")
    /\ LET target == TargetOf(t)
           u == [t EXCEPT !.emitted = Append(@, "FoundUrl")] IN
        IF RecursionUrl(target, t.status) = None
          THEN /\ join_set' = Replace(t, Finished(u, "OkNone"))
               /\ permits' = Release(permits)
          ELSE /\ join_set' = Replace(t, [u EXCEPT !.pc = "visit", !.result = "OkSome"])
               /\ UNCHANGED permits
    /\ UNCHANGED <<config, locks, app, received, probe, consumer, pc, scanIdx, outcome, stopSent, ctrlPending, stopScan,
                   scan_queue, visited_urls, dispatched, enqueued>>

\* the URL the task of record t got back from perform_scan
FoundOf(t) == Unwrap(RecursionUrl(TargetOf(t), t.status))

\* faulty variant: insert() that reports every URL as new
InsertedAlways(visited, u) == TRUE

\* HashSet::insert returns true when the URL was not in the set
Inserted(visited, u) == u \notin visited

\* faulty variant: the depth check on a push is off by one
MayPushInclusive(depth, maxd) == depth <= maxd

\* the depth check on a push
MayPush(depth, maxd) == depth < maxd

\* Ok(Some(found_url)): insert into the visited set and, when it is new and
\* the depth allows, push it onto the queue
Visit(t) ==
    /\ t.pc = "visit"
    /\ LET found_url == FoundOf(t) IN
        /\ visited_urls' = visited_urls \cup {found_url}
        /\ IF Inserted(visited_urls, found_url) /\ MayPush(t.depth, max_depth)
             THEN /\ scan_queue' = Append(scan_queue, [url |-> found_url, depth |-> t.depth + 1])
                  /\ enqueued' = enqueued (+) SetToBag({found_url})
             ELSE UNCHANGED <<scan_queue, enqueued>>
    /\ join_set' = Replace(t, Finished(t, "OkSome"))
    /\ permits' = Release(permits)
    /\ UNCHANGED <<config, locks, app, received, probe, consumer, pc, scanIdx, outcome, stopSent, ctrlPending, stopScan,
                   buffered, sent, dispatched>>

\* the bodies the server answers with: without a metric filter nothing in
\* perform_scan looks at the text, so one readable body stands for all
ServedBodies == IF NoMetricFilters THEN {None, Some(<<>>)} ELSE BodyResults

\* ------------------------------------------------------------------------
\* The consumer goes away
\* ------------------------------------------------------------------------
\* 'q' or Esc in the TUI: Stop is published (scan_stopped is never set),
\* run_tui returns Ok(()) and the receiver is dropped with what it buffers
Quit ==
    /\ consumer = "running"
    /\ consumer' = "ok"
    /\ buffered' = 0
    /\ stopSent' = TRUE
    /\ ctrlPending' = (ctrlPending \/ pc \notin {"spawned", "exit"})
    /\ stopScan' = IF stopSent THEN stopScan ELSE IF pc \in ScanPcs THEN scanIdx ELSE 0
    /\ UNCHANGED <<config, locks, app, received, probe, pc, scanIdx, outcome,
                   permits, scan_queue, join_set, visited_urls,
                   sent, dispatched, enqueued>>

\* terminal.draw(..)? fails: run_tui returns the error and the receiver is
\* dropped, without any Stop
ConsumerFails ==
    /\ consumer = "running"
    /\ consumer' = "err"
    /\ buffered' = 0
    /\ UNCHANGED <<config, locks, app, received, probe, pc, scanIdx, outcome, stopSent, ctrlPending, stopScan,
                   permits, scan_queue, join_set, visited_urls,
                   sent, dispatched, enqueued>>

\* start_scan returns Err: its send of ScanStarted or of ScanFinished
\* fails on the closed channel, or an error was propagated with `?`.  The
\* `?` of main sits inside the async block of the select! arm, whose value
\* the arm `_ = async { .. } => {}` drops, so the for loop goes on to the
\* next base URL
ReturnErr ==
    /\ \/ pc \in {"scan_start", "finish"} /\ rx_closed
       \/ pc = "error"
    /\ outcome' = [outcome EXCEPT ![scanIdx] = "failed"]
    /\ scanIdx' = scanIdx + 1
    /\ pc' = "select"
    /\ permits' = 0
    /\ scan_queue' = <<>>
    /\ join_set' = {}
    /\ visited_urls' = {}
    /\ UNCHANGED <<config, locks, app, received, probe, consumer, stopSent, ctrlPending, stopScan, buffered,
                   sent, dispatched, enqueued>>

\* a send of the task fails on the closed channel: the progress send makes
\* the task return the error; a send inside perform_scan makes perform_scan
\* return it, and the task prints it and returns Ok(())
TaskSendFails(t) ==
    /\ rx_closed
    /\ t.pc \in {"progress", "inflight", "emit"}
    /\ join_set' = Replace(t, Finished(t, IF t.pc = "progress" THEN "SendErr" ELSE "Err"))
    /\ permits' = Release(permits)
    /\ UNCHANGED <<config, locks, app, received, probe, consumer, pc, scanIdx, outcome, stopSent, ctrlPending, stopScan,
                   scan_queue, visited_urls, buffered, sent, dispatched, enqueued>>

SinkStep ==
    \/ Quit
    \/ ConsumerFails
    \/ ReturnErr
    \/ \E t \in join_set : TaskSendFails(t)

\* what the orchestrator task returns: Ok(()) after the break as after the
\* last base URL
OrchestratorResult == Ok(<<>>)

\* what the consumer task returns
ConsumerResult == IF consumer = "err" THEN Err ELSE Ok(<<>>)

\* main ends with `rx_consumer_handle.await??; scan_orchestrator_handle.await??;
\* Ok(())`, and the process exits with 1 when main returns an error
MainResult ==
    IF ConsumerResult = Err \/ OrchestratorResult = Err THEN Err ELSE Ok(<<>>)

TaskStep ==
    \E t \in join_set :
        \/ AcquirePermit(t)
        \/ SendProgress(t)
        \/ \E status \in Statuses, body \in ServedBodies : Respond(t, status, body)
        \/ TransportError(t)
        \/ EmitFound(t)
        \/ Visit(t)

\* the steps of one start_scan call
ScanStep ==
    \/ SendScanStarted
    \/ DrainPop
    \/ DrainBreak
    \/ DrainWait
    \/ JoinRemaining
    \/ SendScanFinished
    \/ Return

Next ==
    \/ Subscribe
    \/ BeginScan
    \/ Break
    \/ AllScanned
    \/ ScanStep
    \/ TaskStep
    \/ SendStop
    \/ Consume

\* a run in which nobody presses Ctrl-C
NextNoStop ==
    \/ Subscribe
    \/ BeginScan
    \/ AllScanned
    \/ ScanStep
    \/ TaskStep
    \/ Consume

Spec == Init /\ [][Next]_vars

\* ------------------------------------------------------------------------
\* Type invariant
\* ------------------------------------------------------------------------
TypeOK ==
    /\ permits \in 0..concurrency
    /\ buffered \in 0..EventCapacity
    /\ pc \in {"spawned", "select", "exit", "drain_locked", "drain_wait"} \cup ScanPcs
    /\ queue_lock \in {"free", "loop", "task"}
    /\ visited_lock \in {"free", "task"}
    /\ consumer \in {"running", "ok", "err"}
    /\ scanIdx \in 1..(Len(urls) + 1)

\* ------------------------------------------------------------------------
\* Scans with filters, and perform_scan on its own
\* ------------------------------------------------------------------------
\* the filter lists given on the command line
StatusLists == SUBSET {200, 404}
CountLists == {{1}}
OptStatusLists == {None} \cup {Some(l) : l \in StatusLists}
OptCountLists == {None} \cup {Some(l) : l \in CountLists}

\* one base URL, one word, and any of the filters
InitFilters ==
    /\ concurrency = 1
    /\ max_depth = 1
    /\ words = <<Word(1)>>
    /\ urls = <<BaseUrl(1)>>
    /\ post_data = FALSE
    /\ include_status \in OptStatusLists
    /\ exclude_status \in OptStatusLists
    /\ exact_words \in OptCountLists
    /\ exact_chars \in OptCountLists
    /\ exact_lines \in OptCountLists
    /\ exclude_exact_words \in OptCountLists
    /\ exclude_exact_chars \in OptCountLists
    /\ exclude_exact_lines \in OptCountLists
    /\ delay = FALSE
    /\ InitScan
    /\ InitProbe

\* one uninterrupted scan with filters
FilterScanSpec == InitFilters /\ [][NextNoStop]_vars

\* the request URLs looked at: one that ends in '/' and one that does not
Targets == {PathTarget(BaseUrl(1), Word(i)) : i \in 1..MaxWords}

\* what client.send() gives: an error, or a response
SendResults ==
    {Err} \cup {Ok([status |-> st, body |-> b]) : st \in Statuses, b \in BodyResults}

\* one perform_scan call from the point where send() returns
PerformScan ==
    /\ response = None
    /\ \E target \in Targets, r \in SendResults :
        /\ response' = Some([target |-> target, sent |-> r])
        /\ performed' = Some(IF r = Err THEN AfterSendError
                             ELSE AfterResponse(target, r[2].status, r[2].body))
    /\ UNCHANGED <<config, locks, app, received, built, consumer, pc, scanIdx, outcome, stopSent, ctrlPending, stopScan,
                   permits, scan_queue, join_set, visited_urls, buffered,
                   sent, dispatched, enqueued>>

PerformSpec == InitFilters /\ [][PerformScan]_vars

\* ------------------------------------------------------------------------
\* Requests: perform_scan up to its request on its own, and scans of URLs
\* with a query
\* ------------------------------------------------------------------------
HttpMethods == {"GET", "POST", "PUT", "DELETE", "HEAD", "OPTIONS", "PATCH"}
FuzzModes == {"Path", "Subdomain", "Parameter"}

\* --data: none, a template with the marker, a template without it
DataTemplates == {None, Some(<<Lit, FUZZ, FUZZ>>), Some(<<Lit>>)}

\* "http://FUZZ.S/"
SubdomainUrl == [Root EXCEPT !.host = <<FUZZ, Lit>>]

\* a path segment that is the marker itself, and "http://S/FUZZ/": a path
\* mode URL (no "FUZZ." and no '?' in it) with the marker in its path
FuzzSeg == 0
MarkerPathUrl == [Root EXCEPT !.segs = <<FuzzSeg>>]

\* URLs with a query: "?k=v&k=vFUZZ&k=FUZZ" (the marker in the second and
\* the third value), "?k=FUZZ", "?FUZZ=v" (the marker in a key only)
QueryUrls ==
    {[Root EXCEPT !.query = q] :
        q \in { <<[key |-> <<Lit>>, val |-> <<Lit>>],
                  [key |-> <<Lit>>, val |-> <<Lit, FUZZ>>],
                  [key |-> <<Lit>>, val |-> <<FUZZ>>]>>,
                <<[key |-> <<Lit>>, val |-> <<FUZZ>>]>>,
                <<[key |-> <<FUZZ>>, val |-> <<Lit>>]>> }}

\* the base URLs perform_scan is given, each with the modes looked at: the
\* mode main pairs with it, and any mode for a URL without query
RequestBases ==
    {b \in [url : {BaseUrl(i) : i \in 1..MaxUrls} \cup {SubdomainUrl, MarkerPathUrl} \cup QueryUrls,
             mode : FuzzModes] :
        b.mode = FuzzModeOf(b.url) \/ b.url.query = <<>>}

\* one perform_scan call up to the point where the request is ready
BuildOne ==
    /\ built = None
    /\ \E m \in HttpMethods, d \in DataTemplates, b \in RequestBases, i \in 1..MaxWords :
        built' = Some([http_method |-> m, data |-> d, mode |-> b.mode, base |-> b.url,
                       word |-> Word(i),
                       out |-> BuildRequest(m, d, b.mode, b.url, Word(i))])
    /\ UNCHANGED <<config, locks, app, received, response, performed, consumer, pc, scanIdx, outcome,
                   stopSent, ctrlPending, stopScan,
                   permits, scan_queue, join_set, visited_urls, buffered,
                   sent, dispatched, enqueued>>

\* no filter, any --data choice
InitRequest ==
    /\ concurrency = 1
    /\ max_depth = 0
    /\ words = [i \in 1..MaxWords |-> Word(i)]
    /\ urls = <<BaseUrl(1)>>
    /\ post_data \in BOOLEAN
    /\ include_status = None
    /\ exclude_status = None
    /\ NoMetricFilters
    /\ delay = FALSE
    /\ InitScan
    /\ InitProbe

RequestSpec == InitRequest /\ [][BuildOne]_vars

\* one base URL with a query, in the mode main pairs with it
InitQuery ==
    /\ concurrency \in 1..MaxConcurrency
    /\ max_depth \in 0..1
    /\ \E n \in 1..MaxWords : words = [i \in 1..n |-> Word(i)]
    /\ \E u \in QueryUrls : urls = <<u>>
    /\ post_data \in BOOLEAN
    /\ include_status = None
    /\ exclude_status = None
    /\ NoMetricFilters
    /\ delay = FALSE
    /\ InitScan
    /\ InitProbe

\* one uninterrupted scan of a URL with a query
QueryScanSpec == InitQuery /\ [][NextNoStop]_vars

\* ------------------------------------------------------------------------
\* Runs in which the consumer can go away
\* ------------------------------------------------------------------------
InitSink ==
    /\ concurrency = 1
    /\ max_depth = 1
    /\ words = <<Word(1)>>
    /\ \E n \in 1..MaxUrls : urls = [i \in 1..n |-> BaseUrl(i)]
    /\ post_data = FALSE
    /\ include_status = None
    /\ exclude_status = None
    /\ NoMetricFilters
    /\ delay = FALSE
    /\ InitScan
    /\ InitProbe

NextSink == Next \/ SinkStep

SinkSpec == InitSink /\ [][NextSink]_vars

\* ------------------------------------------------------------------------
\* Scans of a base URL with the marker in its host ("http://FUZZ.S/")
\* ------------------------------------------------------------------------
InitSubdomain ==
    /\ concurrency \in 1..MaxConcurrency
    /\ max_depth \in 0..1
    /\ \E n \in 1..MaxWords : words = [i \in 1..n |-> Word(i)]
    /\ urls = <<SubdomainUrl>>
    /\ post_data \in BOOLEAN
    /\ include_status = None
    /\ exclude_status = None
    /\ NoMetricFilters
    /\ delay = FALSE
    /\ InitScan
    /\ InitProbe

\* one uninterrupted scan in Subdomain mode
SubdomainScanSpec == InitSubdomain /\ [][NextNoStop]_vars

\* ------------------------------------------------------------------------
\* Runs with any wordlist file, the empty one included
\* ------------------------------------------------------------------------
\* ScanStarted { total_words: words.len() }
total_words == Len(words)

InitWordlist ==
    /\ concurrency \in 1..MaxConcurrency
    /\ max_depth \in 0..MaxDepth
    /\ \E n \in 0..MaxWords : words = [i \in 1..n |-> Word(i)]
    /\ \E n \in 1..MaxUrls : urls = [i \in 1..n |-> BaseUrl(i)]
    /\ Len(words) > 0 => Len(urls) = 1
    /\ TaskBudget(Len(words), max_depth) <= MaxTasks
    /\ post_data = FALSE
    /\ include_status \in {None}
    /\ exclude_status \in {None}
    /\ NoMetricFilters
    /\ delay = FALSE
    /\ InitScan
    /\ InitProbe

\* an uninterrupted run in which every task that can take a step does so
WordlistSpec == InitWordlist /\ [][NextNoStop]_vars /\ WF_vars(NextNoStop)

\* ------------------------------------------------------------------------
\* Console mode: the consumer task of main ends when the channel is closed
\* ------------------------------------------------------------------------
\* an event sender is still alive: the clone the orchestrator task owns, from
\* which start_scan and its tasks get theirs (main drops its own right after
\* it has spawned the two tasks)
senders_left == pc # "exit"

\* faulty variant: recv() gives up as soon as the senders are gone
recv_none_early(left, n) == ~left

\* recv() returns None: every sender has been dropped and nothing is buffered
recv_none(left, n) == ~left /\ n = 0

\* `while let Some(event) = rx_scan_events.recv().await` ends; the task
\* returns Ok(()) and the receiver is dropped
ConsumerEnds ==
    /\ consumer = "running"
    /\ recv_none(senders_left, buffered)
    /\ consumer' = "ok"
    /\ buffered' = 0
    /\ UNCHANGED <<config, locks, app, received, probe, pc, scanIdx, outcome, stopSent, ctrlPending,
                   stopScan, permits, scan_queue, join_set, visited_urls,
                   sent, dispatched, enqueued>>

\* main is past `rx_consumer_handle.await??; scan_orchestrator_handle.await??;`
Terminated == pc = "exit" /\ consumer # "running"

InitConsole ==
    /\ concurrency \in 1..MaxConcurrency
    /\ max_depth \in 0..1
    /\ \E n \in 1..MaxWords : words = [i \in 1..n |-> Word(i)]
    /\ \E n \in 1..MaxUrls : urls = [i \in 1..n |-> BaseUrl(i)]
    /\ Len(urls) * Len(words) <= MaxTasks
    /\ post_data = FALSE
    /\ include_status \in {None}
    /\ exclude_status \in {None}
    /\ NoMetricFilters
    /\ delay = FALSE
    /\ InitScan
    /\ InitProbe

NextConsole == NextNoStop \/ ConsumerEnds

\* a console run without Ctrl-C, under fair scheduling
ConsoleSpec == InitConsole /\ [][NextConsole]_vars /\ WF_vars(NextConsole)

\* ------------------------------------------------------------------------
\* App of the TUI: the list of found lines and its selection
\* ------------------------------------------------------------------------
\* everything but the App
engine == <<config, locks, received, probe, consumer, pc, scanIdx, outcome, stopSent, ctrlPending,
            stopScan, permits, scan_queue, join_set, visited_urls, buffered,
            sent, dispatched, enqueued>>

\* usize::saturating_sub
saturating_sub(a, b) == IF a > b THEN a - b ELSE 0

\* usize::max and usize::min
max(a, b) == IF a > b THEN a ELSE b
min(a, b) == IF a < b THEN a ELSE b

\* (self.found_urls.len() as f64 * 0.1) as usize
page_size(len) == len \div 10

\* faulty variant: a page down that does not stop at the last line
PageDownIndexUnclamped(sel, len) == sel + max(page_size(len), 1)

\* the index scroll_page_down selects
PageDownIndex(sel, len) == min(sel + max(page_size(len), 1), saturating_sub(len, 1))

\* a FoundUrl, ErrorOccurred or Warning event is shown: the line is pushed
\* and selected
add_found_url ==
    /\ Len(found_urls) < MaxFound
    /\ found_urls' = Append(found_urls, Len(found_urls) + 1)
    /\ selected' = Some(saturating_sub(Len(found_urls'), 1))
    /\ UNCHANGED engine

scroll_up ==
    /\ selected' = IF selected # None
                     THEN IF Unwrap(selected) > 0
                            THEN Some(Unwrap(selected) - 1)
                            ELSE Some(saturating_sub(Len(found_urls), 1))
                     ELSE IF found_urls # <<>>
                            THEN Some(saturating_sub(Len(found_urls), 1))
                            ELSE selected
    /\ UNCHANGED <<engine, found_urls>>

scroll_down ==
    /\ selected' = IF selected # None
                     THEN IF Unwrap(selected) < saturating_sub(Len(found_urls), 1)
                            THEN Some(Unwrap(selected) + 1)
                            ELSE Some(0)
                     ELSE IF found_urls # <<>> THEN Some(0) ELSE selected
    /\ UNCHANGED <<engine, found_urls>>

scroll_page_up ==
    /\ selected' = IF selected # None
                     THEN Some(saturating_sub(Unwrap(selected), max(page_size(Len(found_urls)), 1)))
                     ELSE IF found_urls # <<>>
                            THEN Some(saturating_sub(Len(found_urls), 1))
                            ELSE selected
    /\ UNCHANGED <<engine, found_urls>>

scroll_page_down ==
    /\ selected' = IF selected # None
                     THEN Some(PageDownIndex(Unwrap(selected), Len(found_urls)))
                     ELSE IF found_urls # <<>> THEN Some(0) ELSE selected
    /\ UNCHANGED <<engine, found_urls>>

scroll_to_top ==
    /\ selected' = IF found_urls # <<>> THEN Some(0) ELSE selected
    /\ UNCHANGED <<engine, found_urls>>

scroll_to_bottom ==
    /\ selected' = IF found_urls # <<>>
                     THEN Some(saturating_sub(Len(found_urls), 1)) ELSE selected
    /\ UNCHANGED <<engine, found_urls>>

\* App::default() in run_tui, with nothing of the scan looked at
InitApp ==
    /\ concurrency = 1
    /\ max_depth = 0
    /\ words = <<Word(1)>>
    /\ urls = <<BaseUrl(1)>>
    /\ post_data = FALSE
    /\ include_status = None
    /\ exclude_status = None
    /\ NoMetricFilters
    /\ delay = FALSE
    /\ InitScan
    /\ InitProbe

\* the events and key presses run_tui hands to the App
NextApp ==
    \/ add_found_url
    \/ scroll_up
    \/ scroll_down
    \/ scroll_page_up
    \/ scroll_page_down
    \/ scroll_to_top
    \/ scroll_to_bottom

AppSpec == InitApp /\ [][NextApp]_vars

\* ------------------------------------------------------------------------
\* start_scan with its two Mutexes: the drain loop and the end of a task,
\* one step per lock().await
\* ------------------------------------------------------------------------
\* faulty variant: the guard is still alive when the loop enters select!
drop_forgotten(guard) == guard

\* drop(queue): the guard goes away and the Mutex is free
drop(guard) == "free"

\* `let mut queue = scan_queue.lock().await;` at the top of the loop body
LoopLock ==
    /\ pc = "drain"
    /\ queue_lock = "free"
    /\ queue_lock' = "loop"
    /\ pc' = "drain_locked"
    /\ UNCHANGED <<config, app, received, probe, consumer, visited_lock, scanIdx, outcome, stopSent, ctrlPending,
                   stopScan, permits, scan_queue, join_set, visited_urls, buffered,
                   sent, dispatched, enqueued>>

\* pop_front() gives an item: the guard ends with the block, the item is
\* skipped when it is too deep and otherwise one task per word is spawned
LoopPop ==
    /\ pc = "drain_locked"
    /\ scan_queue # <<>>
    /\ LET item == Head(scan_queue) IN
        /\ scan_queue' = Tail(scan_queue)
        /\ IF SkipItem(item.depth, max_depth)
             THEN UNCHANGED <<join_set, dispatched>>
             ELSE /\ join_set' = join_set \cup {NewTask(item, w) : w \in 1..Len(words)}
                  /\ dispatched' = [dispatched EXCEPT ![scanIdx] = @ + Len(words)]
    /\ queue_lock' = "free"
    /\ pc' = "drain"
    /\ UNCHANGED <<config, app, received, probe, consumer, visited_lock, scanIdx, outcome, stopSent, ctrlPending,
                   stopScan, permits, visited_urls, buffered, sent, enqueued>>

\* the queue is empty and so is the join set: break, which ends the guard
LoopBreak ==
    /\ pc = "drain_locked"
    /\ scan_queue = <<>>
    /\ is_empty(join_set)
    /\ queue_lock' = "free"
    /\ pc' = "join"
    /\ UNCHANGED <<config, app, received, probe, consumer, visited_lock, scanIdx, outcome, stopSent, ctrlPending,
                   stopScan, permits, scan_queue, join_set, visited_urls, buffered,
                   sent, dispatched, enqueued>>

\* the queue is empty but tasks are left: drop(queue), then select! on the
\* timer and join_next()
LoopRelease ==
    /\ pc = "drain_locked"
    /\ scan_queue = <<>>
    /\ ~is_empty(join_set)
    /\ queue_lock' = drop(queue_lock)
    /\ pc' = "drain_wait"
    /\ UNCHANGED <<config, app, received, probe, consumer, visited_lock, scanIdx, outcome, stopSent, ctrlPending,
                   stopScan, permits, scan_queue, join_set, visited_urls, buffered,
                   sent, dispatched, enqueued>>

\* join_next() returns a finished task, whose result is dropped; `continue`
\* ends the block and whatever guard was left in it
LoopJoined ==
    /\ pc = "drain_wait"
    /\ \E t \in join_set :
        /\ TaskFinished(t)
        /\ join_set' = join_set \ {t}
    /\ queue_lock' = IF queue_lock = "loop" THEN "free" ELSE queue_lock
    /\ pc' = "drain"
    /\ UNCHANGED <<config, app, received, probe, consumer, visited_lock, scanIdx, outcome, stopSent, ctrlPending,
                   stopScan, permits, scan_queue, visited_urls, buffered,
                   sent, dispatched, enqueued>>

\* the 100 ms sleep of select! is over first; `continue`
LoopTimer ==
    /\ pc = "drain_wait"
    /\ queue_lock' = IF queue_lock = "loop" THEN "free" ELSE queue_lock
    /\ pc' = "drain"
    /\ UNCHANGED <<config, app, received, probe, consumer, visited_lock, scanIdx, outcome, stopSent, ctrlPending,
                   stopScan, permits, scan_queue, join_set, visited_urls, buffered,
                   sent, dispatched, enqueued>>

\* `let mut visited = visited_urls_clone.lock().await;`
LockVisited(t) ==
    /\ t.pc = "visit"
    /\ visited_lock = "free"
    /\ visited_lock' = "task"
    /\ join_set' = Replace(t, [t EXCEPT !.pc = "visited", !.held = @ \cup {"visited_urls"}])
    /\ UNCHANGED <<config, app, received, probe, consumer, queue_lock, pc, scanIdx, outcome, stopSent, ctrlPending,
                   stopScan, permits, scan_queue, visited_urls, buffered,
                   sent, dispatched, enqueued>>

\* visited.insert(found_url): when the URL is new and the depth allows, the
\* task goes on to lock the queue, with the visited guard alive; otherwise
\* the guard ends and so does the task
InsertVisited(t) ==
    /\ t.pc = "visited"
    /\ LET found_url == FoundOf(t) IN
        /\ visited_urls' = visited_urls \cup {found_url}
        /\ IF Inserted(visited_urls, found_url) /\ MayPush(t.depth, max_depth)
             THEN /\ join_set' = Replace(t, [t EXCEPT !.pc = "push_wait"])
                  /\ UNCHANGED <<visited_lock, permits>>
             ELSE /\ join_set' = Replace(t, Finished([t EXCEPT !.held = {}], "OkSome"))
                  /\ visited_lock' = "free"
                  /\ permits' = Release(permits)
    /\ UNCHANGED <<config, app, received, probe, consumer, queue_lock, pc, scanIdx, outcome, stopSent, ctrlPending,
                   stopScan, scan_queue, buffered, sent, dispatched, enqueued>>

\* scan_queue_clone.lock().await
LockQueue(t) ==
    /\ t.pc = "push_wait"
    /\ queue_lock = "free"
    /\ queue_lock' = "task"
    /\ join_set' = Replace(t, [t EXCEPT !.pc = "push", !.held = @ \cup {"scan_queue"}])
    /\ UNCHANGED <<config, app, received, probe, consumer, visited_lock, pc, scanIdx, outcome, stopSent, ctrlPending,
                   stopScan, permits, scan_queue, visited_urls, buffered,
                   sent, dispatched, enqueued>>

\* .push_back((found_url, current_depth + 1)): the queue guard ends with
\* the statement, the visited guard with the block, and the task ends
Push(t) ==
    /\ t.pc = "push"
    /\ LET found_url == FoundOf(t) IN
        /\ scan_queue' = Append(scan_queue, [url |-> found_url, depth |-> t.depth + 1])
        /\ enqueued' = enqueued (+) SetToBag({found_url})
    /\ queue_lock' = "free"
    /\ visited_lock' = "free"
    /\ join_set' = Replace(t, Finished([t EXCEPT !.held = {}], "OkSome"))
    /\ permits' = Release(permits)
    /\ UNCHANGED <<config, app, received, probe, consumer, pc, scanIdx, outcome, stopSent, ctrlPending,
                   stopScan, visited_urls, buffered, sent, dispatched>>

\* the steps of a task that take or give back a Mutex
TaskLockStep ==
    \E t \in join_set :
        \/ LockVisited(t)
        \/ InsertVisited(t)
        \/ LockQueue(t)
        \/ Push(t)

\* the steps of a task before it has a URL to recurse into
TaskRequestStep ==
    \E t \in join_set :
        \/ AcquirePermit(t)
        \/ SendProgress(t)
        \/ \E status \in Statuses, body \in ServedBodies : Respond(t, status, body)
        \/ TransportError(t)
        \/ EmitFound(t)

\* the steps of the drain loop
LoopStep ==
    \/ LoopLock
    \/ LoopPop
    \/ LoopBreak
    \/ LoopRelease
    \/ LoopJoined
    \/ LoopTimer

InitLock ==
    /\ concurrency \in 1..MaxConcurrency
    /\ max_depth \in 0..MaxDepth
    /\ \E n \in 1..MaxWords : words = [i \in 1..n |-> Word(i)]
    /\ urls = <<BaseUrl(1)>>
    /\ TaskBudget(Len(words), max_depth) <= MaxTasks
    /\ post_data = FALSE
    /\ include_status \in {None}
    /\ exclude_status \in {None}
    /\ NoMetricFilters
    /\ delay = FALSE
    /\ InitScan
    /\ InitProbe

NextLock ==
    \/ Subscribe
    \/ BeginScan
    \/ AllScanned
    \/ SendScanStarted
    \/ LoopStep
    \/ JoinRemaining
    \/ SendScanFinished
    \/ Return
    \/ TaskRequestStep
    \/ TaskLockStep
    \/ Consume

LockSpec == InitLock /\ [][NextLock]_vars

\* ------------------------------------------------------------------------
\* Scans with --delay: one base URL, every task sleeps once it has its permit
\* ------------------------------------------------------------------------
InitDelay ==
    /\ concurrency \in 1..MaxConcurrency
    /\ max_depth \in 0..MaxDepth
    /\ \E n \in 1..MaxWords : words = [i \in 1..n |-> Word(i)]
    /\ urls = <<BaseUrl(1)>>
    /\ TaskBudget(Len(words), max_depth) <= MaxTasks
    /\ post_data = FALSE
    /\ include_status \in {None}
    /\ exclude_status \in {None}
    /\ NoMetricFilters
    /\ delay = TRUE
    /\ InitScan
    /\ InitProbe

NextDelay == NextNoStop \/ \E t \in join_set : Sleep(t)

DelaySpec == InitDelay /\ [][NextDelay]_vars


\* a run of main with a single base URL: one start_scan call
InitOneScan == Init /\ Len(urls) = 1

\* one uninterrupted start_scan call under fair scheduling: the runtime runs
\* what can run, every request gets an answer or times out, and the
\* consumer keeps receiving
FairSpec == InitOneScan /\ [][NextNoStop]_vars /\ WF_vars(NextNoStop)

\* ------------------------------------------------------------------------
\* Properties
\* ------------------------------------------------------------------------
Scans == DOMAIN urls

\* a scan that is over: start_scan returned, or its future was dropped
Ended(s) == outcome[s] \in {"returned", "dropped"}

Holders == {t \in join_set : t.pc \notin {"acquire", "done"}}
InFlight == {t \in join_set : t.pc = "inflight"}

WorkerCount(s) ==
    sent[s]["RequestCompleted"] + sent[s]["FoundUrl"] + sent[s]["ErrorOccurred"]
        + sent[s]["Warning"]

\* C1: at any time at most `concurrency` tasks hold a semaphore permit, and
\* so at most `concurrency` requests are in flight
C1_ConcurrencyBound ==
    /\ Cardinality(Holders) <= concurrency
    /\ Cardinality(InFlight) <= concurrency

\* every permit is taken by a request in flight while another task waits
C1_Witness ==
    /\ Cardinality(InFlight) = concurrency
    /\ \E t \in join_set : t.pc = "acquire"

\* C2: every start_scan call returns (under FairSpec): the drain loop does
\* not run or wait forever, whatever the server answers
C2_Terminates == (pc \in ScanPcs) ~> (outcome[1] = "returned")

\* a scan has returned after recursing to the deepest level on 2xx/3xx answers
C2_Witness ==
    /\ outcome[1] = "returned"
    /\ max_depth = MaxDepth
    /\ BagCardinality(enqueued) = MaxDepth

\* C3: a scan that is over has emitted exactly one ScanStarted and exactly
\* one terminal event (ScanFinished or ScanStopped)
C3_OneStartOneTerminal ==
    \A s \in Scans :
        Ended(s) => /\ sent[s]["ScanStarted"] = 1
                    /\ sent[s]["ScanFinished"] + sent[s]["ScanStopped"] = 1

\* C4: a scan during which Stop was broadcast ends with ScanStopped in place
\* of ScanFinished
C4_StopEmitsScanStopped ==
    \A s \in Scans :
        (stopScan = s /\ Ended(s)) => /\ sent[s]["ScanStopped"] = 1
                                      /\ sent[s]["ScanFinished"] = 0

\* C5: a scan emits at most one RequestCompleted per dispatched task, and
\* exactly one per task when it has returned without any transport error
C5_CompletedAtMostDispatched ==
    \A s \in Scans :
        /\ sent[s]["RequestCompleted"] <= dispatched[s]
        /\ (outcome[s] = "returned" /\ sent[s]["ErrorOccurred"] = 0)
              => sent[s]["RequestCompleted"] = dispatched[s]

\* C6: a task whose request failed at the transport level ends having
\* emitted ErrorOccurred and nothing else (no RequestCompleted), with
\* perform_scan returning an error
C6_TransportErrorOnly ==
    \A t \in join_set :
        (t.pc = "done" /\ "ErrorOccurred" \in Range(t.emitted))
            => (t.emitted = <<"ErrorOccurred">> /\ t.result = "Err")

\* C7: a worker event of a scan is sent only after the ScanStarted of that
\* scan and before its ScanFinished
C7_WorkerEventsInside ==
    [][\A s \in Scans :
          WorkerCount(s)' > WorkerCount(s)
              => /\ sent[s]["ScanStarted"] = 1
                 /\ sent[s]["ScanFinished"] = 0
                 /\ sent'[s]["ScanFinished"] = 0]_vars

\* a scan has sent ScanFinished after worker events of several kinds
C7_Witness ==
    \E s \in Scans :
        /\ sent[s]["ScanFinished"] = 1
        /\ sent[s]["FoundUrl"] > 0
        /\ sent[s]["ErrorOccurred"] > 0

\* C8: over the whole run no discovered URL is pushed onto a work queue more
\* than once
C8_EnqueuedAtMostOnce ==
    \A u \in BagToSet(enqueued) : CopiesIn(u, enqueued) <= 1

\* C9: no task ever causes an input base URL to be enqueued and crossed with
\* the wordlist again: the work items expanded below depth 0 are never input
\* base URLs
C9_BaseUrlNotExpandedAgain ==
    \A t \in join_set : t.depth > 0 => \A i \in Scans : t.url # urls[i]

\* C10: with max_depth = N > 0 only work items of depth at most N-1 are
\* crossed with the wordlist, so every URL reported by FoundUrl lies at most
\* N path segments below the base URL; queued items have depth at most N
C10_DepthBound ==
    max_depth > 0 =>
        /\ \A t \in join_set :
              /\ t.depth <= max_depth - 1
              /\ "FoundUrl" \in Range(t.emitted) =>
                    Len(TargetUrl(t.url, words[t.word], post_data).segs)
                        <= Len(urls[scanIdx].segs) + max_depth
        /\ \A i \in DOMAIN scan_queue : scan_queue[i].depth <= max_depth

\* a match has been reported max_depth = 2 levels below the base URL, and a
\* work item of depth 2 waits in the queue
C10_Witness ==
    /\ max_depth = 2
    /\ ~post_data
    /\ \E t \in join_set :
          /\ "FoundUrl" \in Range(t.emitted)
          /\ Len(TargetUrl(t.url, words[t.word], post_data).segs)
                = Len(urls[scanIdx].segs) + 2
    /\ \E i \in DOMAIN scan_queue : scan_queue[i].depth = 2

C12_DepthZeroIsInfinite ==
    /\ max_depth = 0 => \A u \in visited_urls : BagIn(u, enqueued)
    /\ max_depth = 1 => \A t \in join_set : t.depth = 0

\* the perform_scan call looked at on its own got a response
Answered == response # None /\ Unwrap(response).sent # Err
Target == Unwrap(response).target
Status == Unwrap(response).sent[2].status
Body == Unwrap(response).sent[2].body
Events == Range(Unwrap(performed).events)
Returned == Unwrap(performed).ret

\* the three counts of the response, as perform_scan takes them, with the
\* exact_* and the exclude_exact_* list of each
Counted ==
    LET m == Metrics(Status, Unwrap(Body)) IN
    {[n |-> m.w, exact |-> exact_words, exclude |-> exclude_exact_words],
     [n |-> m.c, exact |-> exact_chars, exclude |-> exclude_exact_chars],
     [n |-> m.l, exact |-> exact_lines, exclude |-> exclude_exact_lines]}

\* C13: when neither include_status nor exclude_status is given, a response
\* with status 404 sends RequestCompleted and no FoundUrl, and a response
\* with any other status is not dropped by the status rule: with a readable
\* body and no metric filter it is reported by FoundUrl
C13_Default404 ==
    (Answered /\ include_status = None /\ exclude_status = None) =>
        /\ "RequestCompleted" \in Events
        /\ Status = 404 => "FoundUrl" \notin Events
        /\ (Status # 404 /\ Body # None /\ NoMetricFilters) => "FoundUrl" \in Events

\* without status filters a 404 was answered and only RequestCompleted sent
C13_Witness ==
    /\ Answered /\ include_status = None /\ exclude_status = None
    /\ Status = 404 /\ Body # None /\ NoMetricFilters
    /\ Unwrap(performed).events = <<"RequestCompleted">>

\* C14: when include_status and exclude_status are both given, a response
\* whose status is not in include_status is dropped, and a response whose
\* status is in include_status passes the status rule (with a readable body
\* and no metric filter it is reported), also when that status is in
\* exclude_status and also when it is 404
C14_IncludePrecedence ==
    (Answered /\ include_status # None /\ exclude_status # None) =>
        /\ Status \notin Unwrap(include_status) =>
              ("FoundUrl" \notin Events /\ Returned = Ok(None))
        /\ (Status \in Unwrap(include_status) /\ Body # None /\ NoMetricFilters) =>
              "FoundUrl" \in Events

\* a 404 that is both included and excluded has been reported
C14_Witness ==
    /\ Answered /\ include_status # None /\ exclude_status # None
    /\ Status = 404
    /\ 404 \in Unwrap(include_status) /\ 404 \in Unwrap(exclude_status)
    /\ "FoundUrl" \in Events

\* C15: a response whose body could be read is reported by FoundUrl exactly
\* when its status passes the status rule and each of its three counts is in
\* its exact_* list (when given) and not in its exclude_exact_* list (when
\* given); the condition is a conjunction over the set of checks, so it does
\* not depend on any order among them
C15_FilterConjunction ==
    (Answered /\ Body # None) =>
        ("FoundUrl" \in Events <=>
            /\ StatusPasses(include_status, exclude_status, Status)
            /\ \A k \in Counted :
                  /\ k.exact # None => k.n \in Unwrap(k.exact)
                  /\ k.exclude # None => k.n \notin Unwrap(k.exclude))

\* a response has been reported with an exact_* and an exclude_exact_* list
\* given and a body that is not empty
C15_Witness ==
    /\ Answered /\ Body # None
    /\ "FoundUrl" \in Events
    /\ exact_words # None /\ exact_lines # None /\ exclude_exact_chars # None
    /\ Status = 200

\* C16: in a scan with one task, as long as no FoundUrl was sent (the
\* response was dropped by a filter, or there is none yet) the visited set
\* is empty and nothing was pushed onto the work queue; a task that has sent
\* no FoundUrl never holds a URL to recurse into
C16_DropLeavesNoTrace ==
    /\ \A t \in join_set :
          "FoundUrl" \notin Range(t.emitted) => (t.pc # "visit" /\ t.result # "OkSome")
    /\ \A s \in Scans :
          sent[s]["FoundUrl"] = 0 =>
              /\ visited_urls = {}
              /\ enqueued = EmptyBag
              /\ \A i \in DOMAIN scan_queue : scan_queue[i].depth = 0

\* the status rule lets every status pass, and the task has ended with
\* Ok(None) and without FoundUrl: its response was dropped by a metric filter
C16_Witness ==
    /\ include_status = None /\ exclude_status = Some({})
    /\ \E t \in join_set :
          /\ t.pc = "done" /\ t.result = "OkNone"
          /\ t.emitted = <<"RequestCompleted", "RequestCompleted">>

\* C17: when a task that holds a URL to recurse into finds it in the visited
\* set already, it has sent FoundUrl for its response and it ends without
\* pushing anything onto the work queue
C17_VisitedNotEnqueued ==
    [][\A t \in join_set :
          (/\ t.pc = "visit"
           /\ FoundOf(t) \in visited_urls
           /\ Finished(t, "OkSome") \notin join_set
           /\ Finished(t, "OkSome") \in join_set')
              => /\ "FoundUrl" \in Range(t.emitted)
                 /\ scan_queue' = scan_queue
                 /\ enqueued' = enqueued
                 /\ sent'[scanIdx]["FoundUrl"] = sent[scanIdx]["FoundUrl"]]_vars

\* two tasks of the first scan posted to the same URL, both were reported and
\* both got that URL back to recurse into below the deepest level allowed,
\* and it was pushed onto the work queue once
C17_Witness ==
    /\ post_data /\ max_depth > 0 /\ scanIdx = 1
    /\ \E t \in join_set, u \in join_set :
          /\ t # u
          /\ t.pc = "done" /\ t.result = "OkSome" /\ t.depth = 0
          /\ u.pc = "done" /\ u.result = "OkSome" /\ u.depth = 0
    /\ sent[1]["FoundUrl"] = 2
    /\ BagCardinality(enqueued) = 1

\* C18: a response that passed the filters makes perform_scan return the
\* request URL with a '/' at the end of its path when the status is 2xx, the
\* request URL as it is when the status is 3xx, and no URL for any other
\* status; a response that was not reported returns no URL
C18_RecursionUrl ==
    Answered =>
        IF "FoundUrl" \in Events
          THEN Returned = Ok(IF Status \in 200..299 THEN Some([Target EXCEPT !.slash = TRUE])
                             ELSE IF Status \in 300..399 THEN Some(Target)
                             ELSE None)
          ELSE Returned \in {Ok(None), Err}

\* a reported 200 for a URL without '/' at the end returned that URL with
\* the '/' put on
C18_Witness ==
    /\ Answered /\ "FoundUrl" \in Events
    /\ Status = 200 /\ ~Target.slash
    /\ Returned = Ok(Some([Target EXCEPT !.slash = TRUE]))

\* the task of record t is still in the join set in the next state
StillThere(t) ==
    \E u \in join_set' : u.url = t.url /\ u.depth = t.depth /\ u.word = t.word

\* C19: once Stop was broadcast, a task whose request is in flight is not
\* aborted: it stays in the join set until it has run to its end
C19_InFlightNotAborted ==
    [][\A t \in InFlight : stopSent => StillThere(t)]_vars

\* C20: a task that holds its permit and has Stop waiting on the control
\* channel does not go on to issue its request
C20_StopCheckedBeforeRequest ==
    [][\A t \in join_set :
          (t.pc = "progress" /\ stopSent /\ ctrlPending)
              => \A u \in join_set' :
                    (u.url = t.url /\ u.depth = t.depth /\ u.word = t.word)
                        => u.pc # "inflight"]_vars

\* the perform_scan call whose request building was looked at on its own
Given == Unwrap(built)

\* C26: with POST and a body template the request goes to the base URL as
\* it is and carries the template with every marker replaced by the word;
\* with any other method, or without a template, the request carries no
\* body and goes to the URL templated by the fuzz mode (in path mode: the
\* base URL with the word as one more path segment), unless templating fails
C26_PostBodyTemplating ==
    built # None =>
        IF Given.http_method = "POST" /\ Given.data # None
          THEN /\ Given.out # Err
               /\ Given.out[2].url = Given.base
               /\ Given.out[2].body # None
               /\ LET tpl == Unwrap(Given.data)
                      body == Unwrap(Given.out[2].body) IN
                    /\ Len(body) = Len(tpl)
                    /\ \A i \in DOMAIN tpl :
                          body[i] = IF tpl[i] = FUZZ THEN WordTok(Given.word) ELSE tpl[i]
          ELSE LET url == Templated(Given.mode, Given.base, Given.word) IN
                /\ Given.out = IF url = Err THEN Err ELSE Ok([url |-> url[2], body |-> None])
                /\ Given.mode = "Path" =>
                      /\ Given.out # Err
                      /\ Given.out[2].url.segs = Append(Given.base.segs, Given.word.name)

\* a POST with a body template that holds the marker, in path mode: the
\* request goes to the base URL and the word is in its body
C26_Witness ==
    /\ built # None
    /\ Given.http_method = "POST" /\ Given.mode = "Path"
    /\ Given.data # None /\ ContainsFuzz(Unwrap(Given.data))
    /\ Given.out[2].url = Given.base
    /\ \E i \in DOMAIN Unwrap(Given.out[2].body) :
          Unwrap(Given.out[2].body)[i] = WordTok(Given.word)

\* C21: the scan of a base URL in parameter mode whose query values do not
\* hold the marker does not complete normally: it sends no ScanFinished and
\* start_scan does not return Ok
C21_MarkerMissingIsFatal ==
    (FuzzModeOf(urls[1]) = "Parameter" /\ FirstFuzz(urls[1].query) = 0 /\ ~post_data)
        => (outcome[1] # "returned" /\ sent[1]["ScanFinished"] = 0)

\* C22: when a task has ended with an error from perform_scan, the scan
\* still comes to its end (under FairSpec): every task spawned has sent its
\* progress event and got its answer or its transport error, the queue is
\* empty, ScanFinished is sent and start_scan returns Ok
C22_TaskErrorIsLocal ==
    (\E t \in join_set : t.pc = "done" /\ t.result = "Err")
        ~> (/\ outcome[1] = "returned"
            /\ sent[1]["ScanFinished"] = 1
            /\ scan_queue = <<>>
            /\ sent[1]["RequestCompleted"] + sent[1]["ErrorOccurred"] = 2 * dispatched[1])

\* a scan has returned Ok after a transport error, a match that was pushed
\* onto the queue, and the expansion of that work item
C22_Witness ==
    /\ outcome[1] = "returned"
    /\ sent[1]["ScanFinished"] = 1
    /\ sent[1]["ErrorOccurred"] > 0
    /\ BagCardinality(enqueued) > 0
    /\ dispatched[1] > Len(words)

C24_FatalMeansNonZeroExit ==
    (pc = "exit" /\ rx_closed /\ \E s \in Scans : outcome[s] = "failed")
        => MainResult = Err

\* C25: with several base URLs the scans run one after another in input
\* order.  A scan has left "pending" only when the scan before it has returned
\* after its ScanFinished; a ScanStarted of scan s is sent only after the
\* ScanFinished of scan s - 1; every task that exists belongs to the scan that
\* is running, so no two scans have tasks at the same time; a scan that has
\* returned has spawned a task for every word on its base URL and every task
\* it spawned has had its request sent (answered, or failed in transport);
\* and a run that ends without a Stop has run every scan.
C25_ScansInOrder ==
    /\ \A s \in Scans :
        /\ (s > 1 /\ outcome[s] # "pending")
              => (outcome[s - 1] = "returned" /\ sent[s - 1]["ScanFinished"] = 1)
        /\ (s > 1 /\ sent[s]["ScanStarted"] > 0) => sent[s - 1]["ScanFinished"] = 1
        /\ (s > scanIdx) => (outcome[s] = "pending" /\ sent[s] = NoEvents /\ dispatched[s] = 0)
        /\ outcome[s] = "returned"
              => /\ dispatched[s] >= Len(words)
                 /\ sent[s]["RequestCompleted"] + sent[s]["ErrorOccurred"] = 2 * dispatched[s]
    /\ \A t \in join_set : t.scan = scanIdx /\ outcome[t.scan] = "running"
    /\ (pc = "exit" /\ ~stopSent) => \A s \in Scans : outcome[s] = "returned"

\* the second scan has a request in flight after the first one has returned
\* with all its requests made
C25_Witness ==
    /\ Len(urls) = 2
    /\ scanIdx = 2
    /\ outcome[1] = "returned"
    /\ sent[1]["ScanFinished"] = 1
    /\ sent[1]["RequestCompleted"] + sent[1]["ErrorOccurred"] = 2 * Len(words)
    /\ \E t \in join_set : t.scan = 2 /\ t.pc = "inflight" /\ t.url = urls[2]

\* C27: the drain loop is left only with the work queue empty and no task in
\* the join set; outside the loop the queue of the running call is empty, so
\* nothing that was pushed is left when start_scan returns; and, while the
\* loop waits with tasks left, every work item a task pushes is popped: a
\* queue that holds an item becomes empty again by pops alone.
C27_DrainUntilQuiescent ==
    /\ [][(pc = "drain" /\ pc' # "drain") => (scan_queue = <<>> /\ join_set = {})]_vars
    /\ [](pc \in {"join", "finish", "return"} => (scan_queue = <<>> /\ join_set = {}))
    /\ [][Len(scan_queue') < Len(scan_queue) => (pc = "drain" /\ scan_queue' = Tail(scan_queue))]_vars
    /\ (scan_queue # <<>>) ~> (scan_queue = <<>>)

\* the loop has just been left, after it had waited for a task that pushed
\* what it found, popped that item and run the tasks spawned for it
C27_Witness ==
    /\ pc = "join"
    /\ BagCardinality(enqueued) > 0
    /\ dispatched[1] > Len(words)
    /\ scan_queue = <<>>
    /\ join_set = {}

\* C28: once Stop has been published on the control channel, whenever that
\* was, the for loop of the orchestrator starts no scan of a further base
\* URL.
C28_NoScanAfterStop ==
    [][stopSent => ~(pc = "select" /\ pc' = "scan_start")]_vars

\* C29: the events of one (url, word) task, when its request was answered,
\* are RequestCompleted and then at most a FoundUrl: nothing comes before the
\* RequestCompleted, and a task whose response a filter has dropped has sent
\* the one RequestCompleted and nothing else.
C29_TaskEventOrder ==
    \A t \in join_set :
        "ErrorOccurred" \notin Range(t.emitted)
            => /\ t.emitted \in {<<>>, <<"RequestCompleted">>, <<"RequestCompleted", "FoundUrl">>}
               /\ (t.pc = "done" /\ "FoundUrl" \notin Range(t.emitted))
                     => t.emitted = <<"RequestCompleted">>

\* the same (url, word) task before and after a step
SameTask(t, u) == t.scan = u.scan /\ t.url = u.url /\ t.word = u.word /\ t.depth = u.depth

Sleeping == {t \in join_set : t.pc = "sleep"}

\* C30: with a delay configured a task sleeps after it has acquired its
\* permit and before it sends anything: a task leaves the wait for a
\* permit only into its sleep, taking a permit, and only a task that was
\* sleeping goes on to its request.  A sleeping task holds a permit, so no
\* more than `concurrency` tasks sleep or have a request under way, and
\* with concurrency 1 a task sleeps only while every other task is still
\* waiting for the permit or has ended.
C30_DelayAfterPermit ==
    /\ [][\A t \in join_set, u \in join_set' :
            (delay /\ SameTask(t, u) /\ pc' = pc)
              => /\ (t.pc = "acquire" /\ u.pc # "acquire")
                     => (u.pc = "sleep" /\ permits' = permits - 1)
                 /\ (u.pc \in {"progress", "inflight"} /\ t.pc # u.pc)
                     => t.pc \in {"sleep", "progress"}
                 /\ (t.pc = "sleep" /\ u.pc # "sleep")
                     => (u.pc = "progress" /\ u.emitted = <<>> /\ permits' = permits)]_vars
    /\ [](pc \in ScanPcs
            => /\ Sleeping \subseteq Holders
               /\ Cardinality(Holders) + permits = concurrency
               /\ (concurrency = 1 /\ Sleeping # {})
                     => \A t \in join_set \ Sleeping : t.pc \in {"acquire", "done"})
    /\ [](\A t \in join_set : (delay /\ t.pc = "acquire") => t.emitted = <<>>)

\* concurrency 1: the second task sleeps while holding the only permit,
\* after the first has served its delay and made its request
C30_Witness ==
    /\ delay
    /\ concurrency = 1
    /\ \E t \in join_set : t.pc = "sleep"
    /\ \E t \in join_set : t.pc = "done" /\ Len(t.emitted) > 1
    /\ permits = 0

\* the tasks that hold the named Mutex
HoldersOf(lock) == {t \in join_set : lock \in t.held}

\* the drain loop is at an await: the send of ScanStarted or ScanFinished,
\* the select! on timer and join_next(), or the final join_next() loop
LoopAwaits == pc \in {"scan_start", "drain_wait", "join", "finish"}

\* the task is at the send of an event or has its HTTP request under way
TaskAtIO(t) == t.pc \in {"sleep", "progress", "inflight", "emit"}

\* C31: the drain loop is at none of its awaits (task completion, timer,
\* event send) while it holds the work-queue lock; a task that is at an event
\* send or has its HTTP request under way holds neither lock; and every step
\* that sends an event is taken with both locks free of the sender: the
\* loop does not hold the queue lock and the sending task holds nothing.
C31_NoAwaitUnderLock ==
    /\ [](LoopAwaits => queue_lock # "loop")
    /\ [](\A t \in join_set : TaskAtIO(t) => t.held = {})
    /\ [][sent' # sent
            => /\ (pc \in {"scan_start", "finish"} /\ pc' # pc) => queue_lock # "loop"
               /\ \A t \in join_set : (t \notin join_set' /\ t.pc # "done") => t.held = {}]_vars

\* the loop waits in select! with the queue lock given back, while one task
\* holds both locks for its push and another has its request under way
C31_Witness ==
    /\ pc = "drain_wait"
    /\ queue_lock = "task"
    /\ visited_lock = "task"
    /\ \E t \in join_set : t.pc = "push" /\ t.held = {"visited_urls", "scan_queue"}
    /\ \E t \in join_set : t.pc = "inflight"

ReplacedInPath(segs, w) == [i \in DOMAIN segs |-> IF segs[i] = FuzzSeg THEN w.name ELSE segs[i]]

\* C33: in Path mode (and not a POST with a body template) the request URL
\* is the base URL with the word put in place of the marker in its path when
\* the path holds the marker, and otherwise with the word appended to its
\* path, after a '/' when the URL does not end in one.
C33_PathModeTarget ==
    (built # None /\ Given.mode = "Path" /\ Given.base.query = <<>>
       /\ (Given.http_method # "POST" \/ Given.data = None))
      => Given.out =
           Ok([url |-> IF \E i \in DOMAIN Given.base.segs : Given.base.segs[i] = FuzzSeg
                         THEN [Given.base EXCEPT !.segs = ReplacedInPath(@, Given.word)]
                         ELSE [Given.base EXCEPT !.segs = Append(@, Given.word.name),
                                                 !.slash = Given.word.slash],
               body |-> None])

\* C34: with an empty wordlist no task is ever spawned, so no request is
\* made; each scan sends ScanStarted, whose total_words is 0, then
\* ScanFinished, and no other event; and the run comes to its end with every
\* scan returned and main returning Ok.
C34_EmptyWordlist ==
    /\ [](words = <<>>
            => /\ total_words = 0
               /\ join_set = {}
               /\ \A s \in Scans :
                    /\ dispatched[s] = 0
                    /\ \A k \in EventKinds \ {"ScanStarted", "ScanFinished"} : sent[s][k] = 0
                    /\ sent[s]["ScanFinished"] <= sent[s]["ScanStarted"]
                    /\ sent[s]["ScanStarted"] <= 1
                    /\ outcome[s] = "returned"
                          => (sent[s]["ScanStarted"] = 1 /\ sent[s]["ScanFinished"] = 1))
    /\ (words = <<>>) ~> (pc = "exit" /\ MainResult = Ok(<<>>)
                            /\ \A s \in Scans : outcome[s] = "returned")

\* the run over an empty wordlist has ended after two scans
C34_Witness ==
    /\ words = <<>>
    /\ Len(urls) = 2
    /\ pc = "exit"
    /\ \A s \in Scans : outcome[s] = "returned" /\ sent[s]["ScanFinished"] = 1

\* C35: start_scan returns an error only from its own send of ScanStarted
\* or of ScanFinished, on a closed channel.  When the drain loop has been
\* left the join set is empty, so the loop after it has no task to take a
\* result from, and no result of a task, however the task ended, makes
\* start_scan give up.
C35_OnlyOwnSendsFail ==
    /\ [][(\E s \in Scans : outcome'[s] = "failed" /\ outcome[s] # "failed")
            => (pc \in {"scan_start", "finish"} /\ rx_closed)]_vars
    /\ [](pc \in {"join", "finish", "return"} => join_set = {})
    /\ [](pc # "error")

\* the scan has failed at its ScanFinished, after the drain loop had joined
\* tasks whose progress send had failed on the closed channel
C35_Witness ==
    /\ outcome[1] = "failed"
    /\ sent[1]["ScanStarted"] = 1
    /\ dispatched[1] > 0
    /\ sent[1]["RequestCompleted"] = 0

\* the work item start_scan pushes itself
Seed == [url |-> urls[scanIdx], depth |-> 0]

QueueHolderStep == LoopPop \/ LoopBreak \/ LoopRelease \/ \E t \in join_set : Push(t)

\* a step of the task that holds the visited-set lock
VisitedHolderStep == \E t \in join_set : InsertVisited(t) \/ LockQueue(t) \/ Push(t)

\* C37: no state of a scan is a lock deadlock.  A task takes the work-queue
\* lock only while it holds the visited-set lock and never the other way
\* round; the drain loop holds at most the work-queue lock; each lock has
\* one holder at most; a task waiting for a permit holds no lock.  So the
\* holder of the work-queue lock can always take its next step, and the holder
\* of the visited-set lock can take its next step as soon as the work-queue
\* lock is free.
C37_NoLockDeadlock ==
    /\ [][\A u \in join_set' :
            /\ ("scan_queue" \in u.held /\ queue_lock # "task")
                  => (visited_lock = "task" /\ "visited_urls" \in u.held
                      /\ \E t \in join_set : t.pc = "push_wait" /\ t.held = {"visited_urls"})
            /\ ("visited_urls" \in u.held /\ visited_lock # "task")
                  => HoldersOf("scan_queue") = {}]_vars
    /\ [](/\ Cardinality(HoldersOf("scan_queue")) = (IF queue_lock = "task" THEN 1 ELSE 0)
          /\ Cardinality(HoldersOf("visited_urls")) = (IF visited_lock = "task" THEN 1 ELSE 0)
          /\ visited_lock \in {"free", "task"}
          /\ \A t \in join_set : t.pc \in {"acquire", "done"} => t.held = {})
    /\ [](queue_lock # "free" => ENABLED QueueHolderStep)
    /\ [](visited_lock # "free" => (ENABLED VisitedHolderStep \/ queue_lock # "free"))

\* a task holds the visited-set lock and waits for the work-queue lock,
\* which the drain loop holds
C37_Witness ==
    /\ queue_lock = "loop"
    /\ visited_lock = "task"
    /\ \E t \in join_set : t.pc = "push_wait" /\ t.held = {"visited_urls"}
    /\ \E t \in join_set : t.pc = "visit"

\* the events sent so far, of all scans
RECURSIVE SumKinds(_, _)
SumKinds(f, ks) == IF ks = {} THEN 0
                   ELSE LET k == CHOOSE x \in ks : TRUE IN f[k] + SumKinds(f, ks \ {k})
RECURSIVE SumScans(_)
SumScans(n) == IF n = 0 THEN 0 ELSE SumKinds(sent[n], EventKinds) + SumScans(n - 1)
TotalSent == SumScans(Len(urls))

\* C38: in console mode without a Stop, the consumer ends only after the
\* orchestrator has gone through all base URLs (so that every sender is
\* dropped) and only with every event that was sent received; until then
\* what was sent is either received or still buffered; and once the
\* orchestrator is through, the consumer does end and main returns Ok.
C38_ConsoleDrainsAndEnds ==
    /\ [](consumer = "running" => received + buffered = TotalSent)
    /\ [](consumer # "running"
            => /\ consumer = "ok"
               /\ ~senders_left
               /\ received = TotalSent
               /\ \A s \in Scans : outcome[s] = "returned")
    /\ (pc = "exit") ~> (Terminated /\ received = TotalSent /\ MainResult = Ok(<<>>))

\* the run has ended after two scans whose events, a FoundUrl among them,
\* have all been received
C38_Witness ==
    /\ Terminated
    /\ Len(urls) = 2
    /\ received = TotalSent
    /\ sent[2]["FoundUrl"] > 0
    /\ received >= 8

\* C39: after any sequence of add_found_url and scroll operations the
\* selection is none only while the list is empty, and otherwise an index
\* below the length of the list.
C39_SelectionInRange ==
    /\ selected = None => found_urls = <<>>
    /\ found_urls = <<>> => selected = None
    /\ selected # None => (Unwrap(selected) >= 0 /\ Unwrap(selected) < Len(found_urls))

\* a full list whose selection has been scrolled away from the line added
\* last, to the third line from the end
C39_Witness ==
    /\ Len(found_urls) = MaxFound
    /\ selected = Some(Len(found_urls) - 3)

====
